---- MODULE Spec2Model ----
(***************************************************************************)
(* Slashblade Animation Exporter ("yamato animation converter.py").        *)
(*                                                                         *)
(* The export is modelled step by step: gather the keyframes, then for     *)
(* each keyframe seek the scene, refresh, read the nine bones of           *)
(* BONE_ORDER, emit a block; then create the directory, open and write the *)
(* file and restore the frame cursor.  Every call that can raise has a     *)
(* second action for the raise; the operator's except clause turns it      *)
(* into a report and CANCELLED.                                            *)
(*                                                                         *)
(* Numbers.  A keyframe's x coordinate is a real: it is kept as an integer *)
(* count of 1/FrameDen frames.  An Euler component in radians is kept as   *)
(* an integer count of pi/360 (half degrees); a value in degrees is kept   *)
(* in tenths of a degree.  Text is kept as TLA+ strings, one per element   *)
(* of the Python list `lines`.                                             *)
(***************************************************************************)
EXTENDS Integers, Sequences, FiniteSets, TLC

VARIABLES
    action,        \* the Action: [name, fcurves]; fcurves[c][k] is kp.co.x
    rig,           \* arm_obj.pose.bones in declaration order: [name, parent]
    frame_current, \* scene.frame_current
    pose_frame,    \* the frame the evaluated pose (bone matrices) belongs to
    dir_exists,    \* os.path.exists(os.path.dirname(out_path))
    file,          \* the file at out_path: [exists, data]
    pc,            \* position in execute / export_action_to_slashblade_text
    keyframes,     \* local of export_action_to_slashblade_text
    lines,         \* local: the document being assembled
    orig_frame,    \* local: the saved cursor (NoFrame before line 72)
    i,             \* loop index over keyframes (1-based)
    b,             \* loop index over BONE_ORDER (1-based)
    frame_length,  \* local
    angle_lines,   \* local
    result,        \* what execute returned: "" while running
    report,        \* what execute reported: [level, msg]
    entry,         \* history: frame_current and file when execute was called
    calls,         \* history: the frame_set / update calls made, in order
    reads          \* history: the bone reads made, in order

vars == <<action, rig, frame_current, pose_frame, dir_exists, file, pc,
          keyframes, lines, orig_frame, i, b, frame_length, angle_lines,
          result, report, entry, calls, reads>>

----------------------------------------------------------------------------
(* Bounds of the model *)

\* channels and points per channel of the actions exported
MaxChannels == 1
MaxPoints == 3
\* channels and points per channel of the actions given to the extractor
GatherChannels == 2
GatherPoints == 2
\* a keyframe's x is a multiple of 1/FrameDen
FrameDen == 2

----------------------------------------------------------------------------
(* Configuration *)

\* the order the comment above the list announces: right side first
BONE_ORDER_right_first ==
    << "Torso", "UpperArm_Right", "ForeArm_Right", "Hand_Right",
       "UpperArm_Left", "ForeArm_Left", "Hand_Left", "Hand_Flipped_Left",
       "Sword" >>

BONE_ORDER ==
    << "Torso", "UpperArm_Left", "ForeArm_Left", "Hand_Left",
       "Hand_Flipped_Left", "UpperArm_Right", "ForeArm_Right", "Hand_Right",
       "Sword" >>

NoFrame == "unset"
None == "None"

----------------------------------------------------------------------------
(* Python built-ins used by the code *)

Abs(n) == IF n < 0 THEN -n ELSE n

\* rounding with ties going up instead
PyRound_half_up(q) == (2 * q + FrameDen) \div (2 * FrameDen)

\* int(round(x)) for x = q/FrameDen: nearest integer, ties to the even one
PyRound(q) ==
    LET fl == q \div FrameDen
        r  == q % FrameDen
    IN  IF 2 * r < FrameDen THEN fl
        ELSE IF 2 * r > FrameDen THEN fl + 1
        ELSE IF fl % 2 = 0 THEN fl ELSE fl + 1

SetMin(S) == CHOOSE m \in S : \A n \in S : m <= n

RECURSIVE sorted(_)
sorted(S) ==
    IF S = {} THEN <<>>
    ELSE LET m == SetMin(S) IN <<m>> \o sorted(S \ {m})

\* math.radians / math.degrees in the units above
math_radians(deg) == 2 * deg
math_degrees(rad) == 5 * rad

\* "{:.6f}".format(v) for v in tenths of a degree
Fixed6(t) ==
    (IF t < 0 THEN "-" ELSE "") \o ToString(Abs(t) \div 10) \o "."
        \o ToString(Abs(t) % 10) \o "00000"

Lowers == << "a", "b", "c", "h", "l", "m", "o", "s" >>
Uppers == << "A", "B", "C", "H", "L", "M", "O", "S" >>

str_lower(c) ==
    IF \E k \in 1..Len(Uppers) : Uppers[k] = c
    THEN Lowers[CHOOSE k \in 1..Len(Uppers) : Uppers[k] = c] ELSE c

str_upper(c) ==
    IF \E k \in 1..Len(Lowers) : Lowers[k] = c
    THEN Uppers[CHOOSE k \in 1..Len(Lowers) : Lowers[k] = c] ELSE c

replace_space(c) == IF c = " " THEN "_" ELSE c

RECURSIVE Join(_)
Join(cs) == IF cs = <<>> THEN "" ELSE Head(cs) \o Join(Tail(cs))

anim_name_lower(name) ==
    Join([k \in 1..Len(name) |-> replace_space(str_lower(name[k]))])

anim_name_upper(name) ==
    Join([k \in 1..Len(name) |-> replace_space(str_upper(name[k]))])

----------------------------------------------------------------------------
(* Utilities *)

vec_to_angle_str(deg_tuple) ==
    "Angle(" \o Fixed6(deg_tuple[1]) \o "," \o Fixed6(deg_tuple[2]) \o ","
        \o Fixed6(deg_tuple[3]) \o ")"

gather_action_keyframes(act) ==
    sorted(UNION { { PyRound(act.fcurves[c][k]) :
                        k \in 1..Len(act.fcurves[c]) } :
                   c \in 1..Len(act.fcurves) })

----------------------------------------------------------------------------
(* The host's pose evaluation.  The matrices are Blender's; the model      *)
(* fixes the Euler triple each decomposition yields, different for every   *)
(* bone, frame and kind of matrix product.                                 *)

BoneId(name) ==
    IF \E k \in 1..Len(BONE_ORDER) : BONE_ORDER[k] = name
    THEN CHOOSE k \in 1..Len(BONE_ORDER) : BONE_ORDER[k] = name
    ELSE Len(BONE_ORDER) + 1

\* (pb.parent.matrix.inverted() @ pb.matrix).to_euler('XYZ') at frame f
RelEuler(name, parent, f) ==
    << 20 * BoneId(name) + 3 * f + BoneId(parent),
       7 * f - 11 * BoneId(name),
       -(4 * BoneId(name) + f) >>

\* (arm_obj.matrix_world @ pb.matrix).to_euler('XYZ') at frame f
WorldEuler(name, f) ==
    << 180 + 6 * BoneId(name) + 5 * f,
       13 * BoneId(name) - 2 * f,
       -(9 * f + BoneId(name)) >>

\* name in arm_obj.pose.bones (a miss raises KeyError)
HasBone(r, name) == \E k \in 1..Len(r) : r[k].name = name

\* arm_obj.pose.bones[name]
PoseBone(r, name) == r[CHOOSE k \in 1..Len(r) : r[k].name = name]

\* the same without the root correction
pose_bone_relative_euler_degrees_no_offset(pb, f) ==
    LET e == IF pb.parent # None THEN RelEuler(pb.name, pb.parent, f)
             ELSE WorldEuler(pb.name, f)
    IN  << math_degrees(e[1]), math_degrees(e[2]), math_degrees(e[3]) >>

pose_bone_relative_euler_degrees(pb, f) ==
    IF pb.parent # None
    THEN LET e == RelEuler(pb.name, pb.parent, f)
         IN  << math_degrees(e[1]), math_degrees(e[2]), math_degrees(e[3]) >>
    ELSE LET e == WorldEuler(pb.name, f)
             ex == e[1] - math_radians(90)
         IN  << math_degrees(ex), math_degrees(e[2]), math_degrees(e[3]) >>

----------------------------------------------------------------------------
(* Export core: the pieces of the loop body *)

header(name) ==
    "--@name slashblade_project/anim/" \o anim_name_lower(name) \o "\n"
        \o anim_name_upper(name) \o "={\n"

\* the emptiness test left out
not_keyframes_never(kfs) == FALSE

\* line 62: not keyframes
not_keyframes(kfs) == kfs = <<>>

\* every pass seeking the first keyframe
LoopFrame_first(kfs, idx) == kfs[1]

\* line 74: f of enumerate(keyframes)
LoopFrame(kfs, idx) == kfs[idx]

FrameSet(f) == [op |-> "frame_set", frame |-> f]
Update(f) == [op |-> "update", frame |-> f]

\* the last key given no duration
FrameLength_zero_last(kfs, idx) ==
    IF idx < Len(kfs) THEN kfs[idx + 1] - kfs[idx] ELSE 0

\* lines 79-82
FrameLength(kfs, idx) ==
    IF idx < Len(kfs) THEN kfs[idx + 1] - kfs[idx] ELSE 1

\* line 92
MissingBoneText == "Angle(0,0,0)"

\* every block closed with a comma
BlockClose_always_comma(kfs, idx) == "},\n"

\* lines 100-103
BlockClose(kfs, idx) == IF idx < Len(kfs) THEN "},\n" ELSE "}\n"

\* lines 95-103
Block(angles, len, kfs, idx) ==
    << "{\n" >> \o [k \in 1..Len(angles) |-> angles[k] \o ",\n"]
        \o << ToString(len) \o ",\n", "true\n", BlockClose(kfs, idx) >>

----------------------------------------------------------------------------
(* Inputs *)

\* kp.co.x in 1/FrameDen frames
Coords == { 0, 3, 9 }
RawCoords == { -3, 1, 3, 5 }

SeqsUpTo(S, n) == UNION { [1..m -> S] : m \in 0..n }

\* every list of keyframe points, in any order
RawFCurves == SeqsUpTo(SeqsUpTo(RawCoords, GatherPoints), GatherChannels)

Ascending(s) == \A k \in 1..(Len(s) - 1) : s[k] < s[k + 1]

\* the lists Blender keeps: a channel's points ascend in x
FCurves ==
    { fc \in SeqsUpTo(SeqsUpTo(Coords, MaxPoints), MaxChannels) :
        \A c \in 1..Len(fc) : Ascending(fc[c]) }

ActionName == << "S", "l", "a", "s", "h", " ", "C", "o", "m", "b", "o",
                 " ", "1" >>

Bone(n, p) == [name |-> n, parent |-> p]

FullRig ==
    << Bone("Torso", None), Bone("UpperArm_Left", "Torso"),
       Bone("ForeArm_Left", "UpperArm_Left"),
       Bone("Hand_Left", "ForeArm_Left"),
       Bone("Hand_Flipped_Left", "ForeArm_Left"),
       Bone("UpperArm_Right", "Torso"),
       Bone("ForeArm_Right", "UpperArm_Right"),
       Bone("Hand_Right", "ForeArm_Right"), Bone("Sword", "Hand_Right") >>

NoSwordRig == SubSeq(FullRig, 1, 8)

TorsoOnlyRig == << Bone("Torso", None) >>

\* declared in another order, Torso under an extra root, Sword unparented
OtherRig ==
    << Bone("Sword", None), Bone("Hand_Right", "ForeArm_Right"),
       Bone("ForeArm_Right", "UpperArm_Right"),
       Bone("UpperArm_Right", "Torso"), Bone("Root", None),
       Bone("Hand_Left", "ForeArm_Left"),
       Bone("ForeArm_Left", "UpperArm_Left"),
       Bone("UpperArm_Left", "Torso"), Bone("Torso", "Root") >>

Rigs == { FullRig, NoSwordRig, TorsoOnlyRig, OtherRig }

EntryFrames == { 2, 9 }

NoFile == [exists |-> FALSE, data |-> <<>>]
OldFile == [exists |-> TRUE, data |-> << "old\n" >>]

\* (directory exists, file) before the export
Disks == { <<FALSE, NoFile>>, <<TRUE, NoFile>>, <<TRUE, OldFile>> }

NoReport == [level |-> "", msg |-> ""]

InitWith(fcs, rigs, frames, disks) ==
    /\ action \in { [name |-> ActionName, fcurves |-> fc] : fc \in fcs }
    /\ rig \in rigs
    /\ frame_current \in frames
    /\ pose_frame = frame_current
    /\ \E d \in disks : dir_exists = d[1] /\ file = d[2]
    /\ pc = "execute"
    /\ keyframes = <<>>
    /\ lines = <<>>
    /\ orig_frame = NoFrame
    /\ i = 1
    /\ b = 1
    /\ frame_length = 0
    /\ angle_lines = <<>>
    /\ result = ""
    /\ report = NoReport
    /\ entry = [frame |-> frame_current, file |-> file, dir |-> dir_exists]
    /\ calls = <<>>
    /\ reads = <<>>

Init == InitWith(FCurves, Rigs, EntryFrames, Disks)

----------------------------------------------------------------------------
(* Operator: SLASHBLADE_OT_export_anim.execute *)

Locals == <<keyframes, lines, orig_frame, i, b, frame_length, angle_lines>>
Inputs == <<action, rig, entry>>
Disk == <<dir_exists, file>>
Scene == <<frame_current, pose_frame, calls>>

\* self.report({'ERROR'}, ...); return {'CANCELLED'}
Cancel(msg) ==
    /\ result' = "CANCELLED"
    /\ report' = [level |-> "ERROR", msg |-> msg]
    /\ pc' = "done"

\* except Exception as e: the export raised e
Raise(e) == Cancel("Export failed: " \o e)

\* lines 124-137: the three early returns
ExecuteReject ==
    /\ pc = "execute"
    /\ \E msg \in { "Select an Armature object.",
                    "No Action found on the active Armature.",
                    "Please save your .blend file first." } : Cancel(msg)
    /\ UNCHANGED <<Inputs, Disk, Scene, Locals, reads>>

\* lines 145, 60-63: no keyframes
ExportNoKeyframes ==
    /\ pc = "execute"
    /\ not_keyframes(gather_action_keyframes(action))
    /\ keyframes' = gather_action_keyframes(action)
    /\ Raise("No keyframes found in action!")
    /\ UNCHANGED <<Inputs, Disk, Scene, lines, orig_frame, i, b,
                   frame_length, angle_lines, reads>>

\* lines 145, 60-72
ExportBegin ==
    /\ pc = "execute"
    /\ ~not_keyframes(gather_action_keyframes(action))
    /\ keyframes' = gather_action_keyframes(action)
    /\ orig_frame' = frame_current
    /\ i' = 1
    /\ IF keyframes' # <<>>
       THEN /\ lines' = << header(action.name) >>
            /\ pc' = "seek"
       ELSE /\ lines' = << header(action.name), "}\n" >>
            /\ pc' = "mkdir"
    /\ UNCHANGED <<Inputs, Disk, Scene, b, frame_length, angle_lines,
                   result, report, reads>>

\* line 75
LoopSeek ==
    /\ pc = "seek"
    /\ frame_current' = LoopFrame(keyframes, i)
    /\ pose_frame' = LoopFrame(keyframes, i)
    /\ calls' = Append(calls, FrameSet(LoopFrame(keyframes, i)))
    /\ pc' = "update"
    /\ UNCHANGED <<Inputs, Disk, Locals, result, report, reads>>

\* line 75 raises
LoopSeekRaise ==
    /\ pc = "seek"
    /\ Raise("frame_set")
    /\ UNCHANGED <<Inputs, Disk, Scene, Locals, reads>>

\* lines 76-85
LoopUpdate ==
    /\ pc = "update"
    /\ pose_frame' = frame_current
    /\ calls' = Append(calls, Update(frame_current))
    /\ frame_length' = FrameLength(keyframes, i)
    /\ angle_lines' = <<>>
    /\ b' = 1
    /\ pc' = "bone"
    /\ UNCHANGED <<Inputs, Disk, frame_current, keyframes, lines,
                   orig_frame, i, result, report, reads>>

\* line 76 raises
LoopUpdateRaise ==
    /\ pc = "update"
    /\ Raise("view_layer.update")
    /\ UNCHANGED <<Inputs, Disk, Scene, Locals, reads>>

\* lines 86-92, one bone
LoopBone ==
    /\ pc = "bone"
    /\ LET bone_name == BONE_ORDER[b] IN
         IF HasBone(rig, bone_name)
         THEN /\ angle_lines' = Append(angle_lines,
                    vec_to_angle_str(pose_bone_relative_euler_degrees(
                        PoseBone(rig, bone_name), pose_frame)))
              /\ reads' = Append(reads,
                    [block |-> i, bone |-> bone_name, at |-> pose_frame,
                     cursor |-> frame_current, calls |-> Len(calls)])
         ELSE /\ angle_lines' = Append(angle_lines, MissingBoneText)
              /\ UNCHANGED reads
    /\ b' = b + 1
    /\ pc' = IF b = Len(BONE_ORDER) THEN "emit" ELSE "bone"
    /\ UNCHANGED <<Inputs, Disk, Scene, keyframes, lines, orig_frame, i,
                   frame_length, result, report>>

\* line 49 raises: the parent's matrix is singular
LoopBoneRaise ==
    /\ pc = "bone"
    /\ HasBone(rig, BONE_ORDER[b])
    /\ PoseBone(rig, BONE_ORDER[b]).parent # None
    /\ Raise("Matrix.invert(ed): matrix does not have an inverse")
    /\ UNCHANGED <<Inputs, Disk, Scene, Locals, reads>>

\* lines 95-105
LoopEmit ==
    /\ pc = "emit"
    /\ LET blk == Block(angle_lines, frame_length, keyframes, i) IN
         IF i < Len(keyframes)
         THEN /\ lines' = lines \o blk
              /\ pc' = "seek"
         ELSE /\ lines' = (lines \o blk) \o << "}\n" >>
              /\ pc' = "mkdir"
    /\ i' = i + 1
    /\ UNCHANGED <<Inputs, Disk, Scene, keyframes, orig_frame, b,
                   frame_length, angle_lines, result, report, reads>>

\* line 107
EnsureDir ==
    /\ pc = "mkdir"
    /\ dir_exists' = TRUE
    /\ pc' = "open"
    /\ UNCHANGED <<Inputs, file, Scene, Locals, result, report, reads>>

\* line 107 raises: os.makedirs fails
EnsureDirRaise ==
    /\ pc = "mkdir"
    /\ ~dir_exists
    /\ Raise("makedirs")
    /\ UNCHANGED <<Inputs, Disk, Scene, Locals, reads>>

\* line 108: open(out_path, "w") creates or truncates
OpenFile ==
    /\ pc = "open"
    /\ file' = [exists |-> TRUE, data |-> <<>>]
    /\ pc' = "write"
    /\ UNCHANGED <<Inputs, dir_exists, Scene, Locals, result, report, reads>>

\* line 108 raises
OpenFileRaise ==
    /\ pc = "open"
    /\ Raise("open")
    /\ UNCHANGED <<Inputs, Disk, Scene, Locals, reads>>

\* line 109 and the close at the end of the with block
WriteLines ==
    /\ pc = "write"
    /\ file' = [exists |-> TRUE, data |-> lines]
    /\ pc' = "restore"
    /\ UNCHANGED <<Inputs, dir_exists, Scene, Locals, result, report, reads>>

\* line 109 raises after part of the text reached the disk
WriteLinesRaise ==
    /\ pc = "write"
    /\ \E n \in 0..(Len(lines) - 1) :
         file' = [exists |-> TRUE, data |-> SubSeq(lines, 1, n)]
    /\ Raise("write")
    /\ UNCHANGED <<Inputs, dir_exists, Scene, Locals, reads>>

\* line 111
Restore ==
    /\ pc = "restore"
    /\ frame_current' = orig_frame
    /\ pose_frame' = orig_frame
    /\ calls' = Append(calls, FrameSet(orig_frame))
    /\ pc' = "restore_update"
    /\ UNCHANGED <<Inputs, Disk, Locals, result, report, reads>>

\* line 111 raises
RestoreRaise ==
    /\ pc = "restore"
    /\ Raise("frame_set")
    /\ UNCHANGED <<Inputs, Disk, Scene, Locals, reads>>

\* lines 112-114, 152-153
Finish ==
    /\ pc = "restore_update"
    /\ pose_frame' = frame_current
    /\ calls' = Append(calls, Update(frame_current))
    /\ result' = "FINISHED"
    /\ report' = [level |-> "INFO",
                  msg |-> "Exported '" \o Join(action.name) \o "'"]
    /\ pc' = "done"
    /\ UNCHANGED <<Inputs, Disk, frame_current, Locals, reads>>

\* line 112 raises
FinishRaise ==
    /\ pc = "restore_update"
    /\ Raise("view_layer.update")
    /\ UNCHANGED <<Inputs, Disk, Scene, Locals, reads>>

Next ==
    \/ ExecuteReject
    \/ ExportNoKeyframes
    \/ ExportBegin
    \/ LoopSeek
    \/ LoopSeekRaise
    \/ LoopUpdate
    \/ LoopUpdateRaise
    \/ LoopBone
    \/ LoopBoneRaise
    \/ LoopEmit
    \/ EnsureDir
    \/ EnsureDirRaise
    \/ OpenFile
    \/ OpenFileRaise
    \/ WriteLines
    \/ WriteLinesRaise
    \/ Restore
    \/ RestoreRaise
    \/ Finish
    \/ FinishRaise

Spec == Init /\ [][Next]_vars

----------------------------------------------------------------------------
(* The keyframe extractor alone, on every list of keyframe points *)

InitGather == InitWith(RawFCurves, { FullRig }, { 2 }, { <<FALSE, NoFile>> })

Gather ==
    /\ pc = "execute"
    /\ keyframes' = gather_action_keyframes(action)
    /\ pc' = "gathered"
    /\ UNCHANGED <<Inputs, Disk, Scene, lines, orig_frame, i, b,
                   frame_length, angle_lines, result, report, reads>>

NextGather == Gather

SpecGather == InitGather /\ [][NextGather]_vars

----------------------------------------------------------------------------
(* Reading the assembled document *)

\* a block is "{", the angle entries, the duration, the flag and the close
BlockSize == Len(BONE_ORDER) + 4

\* the k-th line of the j-th block of doc (the header is doc[1])
BlockLine(doc, j, k) == doc[1 + (j - 1) * BlockSize + k]

\* the blocks wholly present in doc
NumBlocks(doc) == IF doc = <<>> THEN 0 ELSE (Len(doc) - 1) \div BlockSize

\* the n-th angle entry of the j-th block
AngleEntry(doc, j, n) == BlockLine(doc, j, 1 + n)

\* the loop has ended and line 105 has closed the table
Assembled ==
    pc \in { "mkdir", "open", "write", "restore", "restore_update" }
        \/ (pc = "done" /\ lines # <<>> /\ i > Len(keyframes))

Rejected ==
    report.msg \in { "Select an Armature object.",
                     "No Action found on the active Armature.",
                     "Please save your .blend file first." }

\* the export itself was entered and has ended
ExportEnded == pc = "done" /\ ~Rejected

TotalPoints(fc) == LET RECURSIVE Sum(_)
                       Sum(c) == IF c = 0 THEN 0 ELSE Len(fc[c]) + Sum(c - 1)
                   IN  Sum(Len(fc))

\* r is x = q/FrameDen rounded to the nearest integer, a tie going to even
IsRounded(q, r) ==
    /\ 2 * Abs(FrameDen * r - q) <= FrameDen
    /\ 2 * Abs(FrameDen * r - q) = FrameDen => r % 2 = 0

\* the text of a triple given in tenths of a degree
AngleText(x, y, z) == vec_to_angle_str(<<x, y, z>>)

\* the world Euler triple in degrees with 90 taken off X
OffsetText(name, f) ==
    LET e == WorldEuler(name, f)
    IN  AngleText(math_degrees(e[1]) - 900, math_degrees(e[2]),
                  math_degrees(e[3]))

\* the parent-relative Euler triple in degrees
RelativeText(name, parent, f) ==
    LET e == RelEuler(name, parent, f)
    IN  AngleText(math_degrees(e[1]), math_degrees(e[2]), math_degrees(e[3]))

\* the bones of the rig carrying this name, whatever their position
Named(name) == { k \in 1..Len(rig) : rig[k].name = name }

----------------------------------------------------------------------------
(* C1 *)

\* C1: once execute has ended, however the export ended, the scene's
\* current frame is the one it had when the export began.
C1_CursorRestored == ExportEnded => frame_current = entry.frame

----------------------------------------------------------------------------
(* C2 *)

ZeroAngleText == "Angle(0.000000,0.000000,0.000000)"

\* C2: in every block, the slot of a BONE_ORDER name the rig lacks holds
\* Angle(0.000000,0.000000,0.000000), and the slot of every bone the rig has
\* holds that bone's own angles.
C2_MissingBoneZeroText ==
    \A j \in 1..NumBlocks(lines) : \A n \in 1..Len(BONE_ORDER) :
        IF Named(BONE_ORDER[n]) = {}
        THEN AngleEntry(lines, j, n) = ZeroAngleText \o ",\n"
        ELSE \E k \in Named(BONE_ORDER[n]) :
               AngleEntry(lines, j, n) =
                 vec_to_angle_str(pose_bone_relative_euler_degrees(
                     rig[k], keyframes[j])) \o ",\n"

----------------------------------------------------------------------------
(* C3 *)

ZeroPoints == \A c \in 1..Len(action.fcurves) : action.fcurves[c] = <<>>

\* C3: for an action without keyframe points the extractor returns the
\* empty sequence, no frame_set is ever made, the directory and the file
\* stay as they were, and execute ends with an ERROR report (the "no
\* keyframes" one once the export was entered) and CANCELLED.
C3_NoKeyframesRefused ==
    ZeroPoints =>
        /\ gather_action_keyframes(action) = <<>>
        /\ pc \in { "execute", "done" }
        /\ calls = <<>>
        /\ frame_current = entry.frame
        /\ file = entry.file
        /\ dir_exists = entry.dir
        /\ lines = <<>>
        /\ pc = "done" =>
             /\ result = "CANCELLED"
             /\ report.level = "ERROR"
             /\ ~Rejected =>
                  report.msg = "Export failed: No keyframes found in action!"

C3_Witness ==
    /\ ZeroPoints
    /\ Len(action.fcurves) = MaxChannels
    /\ ExportEnded
    /\ result = "CANCELLED"
    /\ entry.file.exists

----------------------------------------------------------------------------
(* C4 *)

\* C4: for an action with at least one keyframe point the extractor returns
\* a non-empty strictly ascending sequence, no longer than the number of
\* points, whose elements are exactly the rounded x coordinates.
C4_GatherSortedUnique ==
    (pc = "gathered" /\ TotalPoints(action.fcurves) > 0) =>
        /\ keyframes # <<>>
        /\ \A k \in 1..(Len(keyframes) - 1) : keyframes[k] < keyframes[k + 1]
        /\ Len(keyframes) <= TotalPoints(action.fcurves)
        /\ \A k \in 1..Len(keyframes) :
             \E c \in 1..Len(action.fcurves) :
               \E p \in 1..Len(action.fcurves[c]) :
                 IsRounded(action.fcurves[c][p], keyframes[k])
        /\ \A c \in 1..Len(action.fcurves) :
             \A p \in 1..Len(action.fcurves[c]) :
               \E k \in 1..Len(keyframes) :
                 IsRounded(action.fcurves[c][p], keyframes[k])

\* two points that round to one frame, given out of order
C4_Witness ==
    /\ pc = "gathered"
    /\ Len(action.fcurves) = GatherChannels
    /\ TotalPoints(action.fcurves) > Len(keyframes)
    /\ Len(keyframes) > 1
    /\ ~Ascending(action.fcurves[1])

----------------------------------------------------------------------------
(* C5 *)

\* C5: the duration line of block j is frames[j+1] - frames[j], or 1 for
\* the last block, and is never below 1.
C5_HoldDuration ==
    \A j \in 1..NumBlocks(lines) :
        LET d == IF j < Len(keyframes)
                 THEN keyframes[j + 1] - keyframes[j] ELSE 1
        IN  /\ BlockLine(lines, j, Len(BONE_ORDER) + 2) = ToString(d) \o ",\n"
            /\ d >= 1

C5_Witness ==
    /\ Assembled
    /\ NumBlocks(lines) > 2
    /\ BlockLine(lines, 1, Len(BONE_ORDER) + 2) = "2,\n"
    /\ BlockLine(lines, 3, Len(BONE_ORDER) + 2) = "1,\n"

----------------------------------------------------------------------------
(* C6 *)

BoneOrder ==
    << "Torso", "UpperArm_Left", "ForeArm_Left", "Hand_Left",
       "Hand_Flipped_Left", "UpperArm_Right", "ForeArm_Right", "Hand_Right",
       "Sword" >>

----------------------------------------------------------------------------
(* C7 *)

\* C7: the file changes only once the whole document is assembled; after a
\* failed export the path holds what it held before, or nothing, or the
\* whole document, never a part of it; after a successful export it holds
\* the whole document.
C7_NoPartialFile ==
    /\ file # entry.file => Assembled
    /\ (ExportEnded /\ result = "CANCELLED") =>
          \/ file = entry.file
          \/ file.data = <<>>
          \/ file.data = lines
    /\ result = "FINISHED" => file = [exists |-> TRUE, data |-> lines]

----------------------------------------------------------------------------
(* C8 *)

\* the n-th slot of block j carries the world angles with 90 taken off X
OffsetApplied(j, n) ==
    AngleEntry(lines, j, n) = OffsetText(BONE_ORDER[n], keyframes[j]) \o ",\n"

----------------------------------------------------------------------------
(* C9 *)

\* the frame_set calls of the loop made so far
LoopSeeks == { k \in 1..Len(calls) : k <= 2 * Len(keyframes) /\ k % 2 = 1 }

\* C9: the loop seeks frames[1], frames[2], ... in this order, each once and
\* each followed by its refresh; a bone read for block j is made after the
\* refresh of the seek to frames[j] and before the next seek, with the
\* cursor and the pose at frames[j].
C9_SeekThenRead ==
    /\ Len(calls) <= 2 * Len(keyframes) + 2
    /\ \A k \in 1..Len(calls) :
         IF k > 2 * Len(keyframes)
         THEN calls[k].frame = entry.frame
         ELSE /\ calls[k].frame = keyframes[(k + 1) \div 2]
              /\ calls[k].op = IF k % 2 = 1 THEN "frame_set" ELSE "update"
    /\ \A k \in LoopSeeks : \A m \in LoopSeeks :
         k < m => calls[k].frame < calls[m].frame
    /\ result = "FINISHED" => Cardinality(LoopSeeks) = Len(keyframes)
    /\ \A r \in 1..Len(reads) :
         /\ reads[r].calls = 2 * reads[r].block
         /\ reads[r].cursor = keyframes[reads[r].block]
         /\ reads[r].at = keyframes[reads[r].block]
    /\ pc = "bone" => /\ Len(calls) = 2 * i
                      /\ frame_current = keyframes[i]

C9_Witness ==
    /\ result = "FINISHED"
    /\ Len(keyframes) > 2
    /\ Len(reads) = 3 * Len(BONE_ORDER)
    /\ entry.frame = keyframes[2]

----------------------------------------------------------------------------
(* C10 *)

\* C10: the assembled document has one block per frame, in frame order;
\* each block ends with the line "true" followed by its close, which is
\* "}," for every block but the last and "}" for the last, and the line
\* after the last block closes the table.
C10_BlockClosing ==
    Assembled =>
        /\ Len(keyframes) > 0
        /\ Len(lines) = 2 + BlockSize * Len(keyframes)
        /\ lines[Len(lines)] = "}\n"
        /\ \A j \in 1..Len(keyframes) :
             /\ BlockLine(lines, j, BlockSize - 1) = "true\n"
             /\ BlockLine(lines, j, BlockSize) =
                  IF j = Len(keyframes) THEN "}\n" ELSE "},\n"
             /\ \A r \in 1..Len(reads) :
                  reads[r].bone = BONE_ORDER[1] /\ reads[r].block = j =>
                    AngleEntry(lines, j, 1) =
                      vec_to_angle_str(pose_bone_relative_euler_degrees(
                        PoseBone(rig, BONE_ORDER[1]), keyframes[j])) \o ",\n"

C10_Witness ==
    /\ result = "FINISHED"
    /\ Len(keyframes) = 3
    /\ file.data = lines
    /\ BlockLine(file.data, 2, BlockSize) = "},\n"
    /\ BlockLine(file.data, 3, BlockSize) = "}\n"
====
